---- MODULE Spec2Model ----
(***************************************************************************)
(* A model of image-label (src/main.go): a single-process web utility that *)
(* serves a paginated grid of the images in ./images, moves an image into  *)
(* ./images/<label>/ on POST /label, and packs every subfolder of ./images *)
(* into result.zip when an interrupt signal arrives.                       *)
(*                                                                         *)
(* The state is the directory tree below ./images (paths are sequences of  *)
(* names relative to ./images, files point to inodes so that an open file  *)
(* descriptor survives a rename or an unlink), the label list, the         *)
(* position of the main goroutine, of the signal goroutine and of each     *)
(* request handler, and the archive being written.  Every system call the  *)
(* code makes may fail for reasons outside the model (permissions, a full  *)
(* disk, a cross-device rename); such a failure is a nondeterministic      *)
(* choice in the action that makes the call.                               *)
(***************************************************************************)
EXTENDS Integers, Sequences, FiniteSets, TLC

\* ------------------------------------------------------------------ bounds
\* Concurrent request handlers (net/http runs one goroutine per request).
NSlots == 2
\* Requests the server accepts in one run.
MaxReq == 2
\* Inodes the file system can hold; os.Create fails once they are used up.
MaxIno == 3
\* Largest directory listing drawn for the pagination specification.
MaxImages == 21

\* --------------------------------------------------------------- constants
itemsPerPage == 10

Root == <<>>

\* Names that occur below ./images, in byte order (sort.Strings, os.ReadDir).
Rank(n) ==
    CASE n = "A" -> 1
      [] n = "B" -> 2
      [] n = "cat.png" -> 3
      [] n = "dog.jpg" -> 4
      [] n = "ghost.png" -> 5
      [] OTHER -> 6

\* ------------------------------------------------------------ file system
\* A tree is [d |-> set of directory paths, f |-> function file path -> inode,
\*            c |-> function inode -> "free" | "part" | "full"], where "part"
\* is a file that holds less than the image's bytes, none included.
Inodes == 1..MaxIno

Parent(p) == SubSeq(p, 1, Len(p) - 1)

Base(p) == p[Len(p)]

IsPrefix(a, b) == Len(a) <= Len(b) /\ SubSeq(b, 1, Len(a)) = a

IsDir(t, p) == p \in t.d

IsFile(t, p) == p \in DOMAIN t.f

Exists(t, p) == IsDir(t, p) \/ IsFile(t, p)

\* The entries below directory p, at any depth.
Under(t, p) == {q \in t.d \cup DOMAIN t.f : IsPrefix(p, q) /\ q # p}

\* The direct entries of directory p.
Children(t, p) == {q \in Under(t, p) : Len(q) = Len(p) + 1}

\* filepath.Join(dir, name) for a name of one component: Join cleans the
\* result, so "." names dir itself.
Join(dir, name) == IF name = "." THEN dir ELSE Append(dir, name)

\* The function f without the keys in gone and with new |-> ino.
Rebind(f, gone, new, ino) ==
    [q \in (DOMAIN f \ gone) \cup {new} |-> IF q = new THEN ino ELSE f[q]]

\* Inodes nothing refers to hold no data: held are the inodes of open files.
Gc(t, held) ==
    LET used == {t.f[q] : q \in DOMAIN t.f} \cup held
    IN  [t EXCEPT !.c = [i \in Inodes |-> IF i \in used THEN t.c[i] ELSE "free"]]

\* os.MkdirAll(p): p and its missing parents become directories; it fails
\* when p or one of its parents is a file.
RECURSIVE MkdirAll(_, _)
MkdirAll(t, p) ==
    IF IsDir(t, p) THEN [ok |-> TRUE, t |-> t]
    ELSE IF IsFile(t, p) THEN [ok |-> FALSE, t |-> t]
    ELSE IF p = Root THEN [ok |-> TRUE, t |-> [t EXCEPT !.d = @ \cup {Root}]]
    ELSE LET up == MkdirAll(t, Parent(p))
         IN  IF up.ok THEN [ok |-> TRUE, t |-> [up.t EXCEPT !.d = @ \cup {p}]]
             ELSE [ok |-> FALSE, t |-> t]

\* A variant of Rename that links the new name and keeps the old one.
RenameKeepsOld(t, old, new) ==
    IF IsFile(t, old) /\ IsDir(t, Parent(new)) /\ ~IsDir(t, new)
    THEN [ok |-> TRUE, t |-> [t EXCEPT !.f = Rebind(t.f, {}, new, t.f[old])]]
    ELSE [ok |-> FALSE, t |-> t]

\* os.Rename(old, new) on unix.  Go refuses a new name that is an existing
\* directory before it calls rename(2); rename(2) then fails when old does
\* not exist, when the parent of new is no directory, or when a directory
\* would move below itself; renaming a file onto itself does nothing.
Rename(t, old, new) ==
    IF IsDir(t, new) \/ ~Exists(t, old) \/ ~IsDir(t, Parent(new))
       \/ (IsDir(t, old) /\ (IsFile(t, new) \/ IsPrefix(old, new)))
    THEN [ok |-> FALSE, t |-> t]
    ELSE IF old = new THEN [ok |-> TRUE, t |-> t]
    ELSE IF IsFile(t, old)
    THEN [ok |-> TRUE, t |-> [t EXCEPT !.f = Rebind(t.f, {old}, new, t.f[old])]]
    ELSE LET moved(q) == new \o SubSeq(q, Len(old) + 1, Len(q))
             sub == Under(t, old) \cup {old}
             nf == [q \in (DOMAIN t.f \ sub) \cup {moved(x) : x \in sub \cap DOMAIN t.f}
                      |-> IF q \in DOMAIN t.f \ sub THEN t.f[q]
                          ELSE t.f[CHOOSE x \in sub \cap DOMAIN t.f : moved(x) = q]]
         IN  [ok |-> TRUE,
              t |-> [t EXCEPT !.d = (@ \ sub) \cup {moved(x) : x \in sub \cap t.d},
                              !.f = nf]]

\* A descriptor on a directory: os.Open succeeds on one, reading it fails.
DirFd == 0

\* os.Open(p): a descriptor on the inode of p.
Open(t, p) ==
    IF IsFile(t, p) THEN [ok |-> TRUE, fd |-> t.f[p]]
    ELSE IF IsDir(t, p) THEN [ok |-> TRUE, fd |-> DirFd]
    ELSE [ok |-> FALSE, fd |-> DirFd]

\* os.Create(p): an existing file is truncated, a missing one is created on
\* a free inode; it fails on a directory, below a missing directory, and when
\* no inode is free.
Create(t, p, held) ==
    LET used == {t.f[q] : q \in DOMAIN t.f} \cup held
        free == Inodes \ used
        ino == CHOOSE i \in free : \A j \in free : i <= j
    IN  IF IsDir(t, p) \/ ~IsDir(t, Parent(p)) THEN [ok |-> FALSE, fd |-> DirFd, t |-> t]
        ELSE IF IsFile(t, p)
        THEN [ok |-> TRUE, fd |-> t.f[p], t |-> [t EXCEPT !.c[t.f[p]] = "part"]]
        ELSE IF free = {} THEN [ok |-> FALSE, fd |-> DirFd, t |-> t]
        ELSE [ok |-> TRUE, fd |-> ino,
              t |-> [t EXCEPT !.f = Rebind(t.f, {}, p, ino), !.c[ino] = "part"]]

\* os.Remove(p): unlinks a file, removes an empty directory.
Remove(t, p) ==
    IF IsFile(t, p)
    THEN [ok |-> TRUE, t |-> [t EXCEPT !.f = [q \in DOMAIN t.f \ {p} |-> t.f[q]]]]
    ELSE IF IsDir(t, p) /\ Under(t, p) = {}
    THEN [ok |-> TRUE, t |-> [t EXCEPT !.d = @ \ {p}]]
    ELSE [ok |-> FALSE, t |-> t]

\* A variant of RemoveAll that unlinks the directory entry alone and leaves
\* what it held, as a removal that does not recurse would.
RemoveDirOnly(t, p) == [t EXCEPT !.d = @ \ {p}]

\* os.RemoveAll(p): p and everything below it.
RemoveAll(t, p) ==
    LET sub == Under(t, p) \cup {p}
    IN  [t EXCEPT !.d = @ \ sub, !.f = [q \in DOMAIN t.f \ sub |-> t.f[q]]]

\* The names of the direct entries of p, sorted (os.ReadDir, readDirNames).
RECURSIVE SortNames(_)
SortNames(S) ==
    IF S = {} THEN <<>>
    ELSE LET m == CHOOSE x \in S : \A y \in S : Rank(x) <= Rank(y)
         IN  <<m>> \o SortNames(S \ {m})

ReadDir(t, p) == SortNames({Base(q) : q \in Children(t, p)})

\* ------------------------------------------------------------------ strings
\* A form or query value is a sequence of one-character strings.
Digits == {"0", "1", "2", "3", "4", "5", "6", "7", "8", "9"}

DigitVal(c) ==
    CASE c = "0" -> 0 [] c = "1" -> 1 [] c = "2" -> 2 [] c = "3" -> 3 [] c = "4" -> 4
      [] c = "5" -> 5 [] c = "6" -> 6 [] c = "7" -> 7 [] c = "8" -> 8 [] c = "9" -> 9

RECURSIVE DecVal(_)
DecVal(ds) == IF ds = <<>> THEN 0 ELSE 10 * DecVal(Parent(ds)) + DigitVal(Base(ds))

RECURSIVE StripZeros(_)
StripZeros(ds) == IF Len(ds) > 1 /\ Head(ds) = "0" THEN StripZeros(Tail(ds)) ELSE ds

\* a < b for two digit strings of the same length.
RECURSIVE DecLess(_, _)
DecLess(a, b) ==
    IF a = <<>> THEN FALSE
    ELSE IF Head(a) = Head(b) THEN DecLess(Tail(a), Tail(b))
    ELSE DigitVal(Head(a)) < DigitVal(Head(b))

\* The digits of 2^63 - 1 and of 2^63: int is 64 bits wide on every target
\* the Makefile builds.
MaxIntDigits ==
    <<"9","2","2","3","3","7","2","0","3","6","8","5","4","7","7","5","8","0","7">>

MinIntDigits ==
    <<"9","2","2","3","3","7","2","0","3","6","8","5","4","7","7","5","8","0","8">>

\* strconv.Atoi(s): an optional sign and decimal digits; anything else is a
\* syntax error, a value outside the int range is a range error.  Either
\* error leaves err set, which is all the callers look at.
Atoi(s) ==
    LET signed == s # <<>> /\ Head(s) \in {"+", "-"}
        neg == s # <<>> /\ Head(s) = "-"
        ds == IF signed THEN Tail(s) ELSE s
        mag == StripZeros(ds)
        lim == IF neg THEN MinIntDigits ELSE MaxIntDigits
    IN  IF ds = <<>> \/ \E i \in 1..Len(ds) : ds[i] \notin Digits
        THEN [err |-> TRUE, val |-> 0]
        ELSE IF Len(mag) > Len(lim) \/ (Len(mag) = Len(lim) /\ DecLess(lim, mag))
        THEN [err |-> TRUE, val |-> 0]
        ELSE [err |-> FALSE, val |-> IF neg THEN 0 - DecVal(mag) ELSE DecVal(mag)]

\* strings.TrimSpace on the lines labels.txt holds in this model.
TrimSpace(line) ==
    CASE line = " B " -> "B"
      [] line = "  " -> ""
      [] OTHER -> line

\* ------------------------------------------------------------------- state
VARIABLES
    fs,         \* the tree below ./images
    labelFile,  \* labels.txt: whether it can be read, and its lines
    labelChoices, \* the loaded labels
    mpc,        \* the main goroutine's position
    proc,       \* "running" | "exited"
    cleanTodo,  \* cleanLabelSubfolders: the entries still to visit
    log,        \* the kinds of message logged so far
    sigReg,     \* signal.Notify has been called
    sigChan,    \* signals buffered in sigChan (capacity 1)
    sigSeen,    \* a termination signal has been delivered to the process
    req,        \* the request handlers
    nreq,       \* requests accepted so far
    zpc,        \* the signal goroutine's position
    zruns,      \* calls of createResultZip so far
    zentries,   \* createResultZip: the entries of ./images still to visit
    zdir,       \* createResultZip: the subfolder being walked
    ztodo,      \* filepath.Walk: the paths still to visit
    zip,        \* result.zip: entry path -> "part" | "full"
    zfailed,    \* the subfolders whose walk ended with an error (logged)
    zkept,      \* the files that were below a subfolder when createResultZip
                \* listed ./images and have stayed in place since
    pgDir,      \* pagination: the listing os.ReadDir returns to getImages
    pgOut       \* pagination: what homeHandler answered

vars == <<fs, labelFile, labelChoices, mpc, proc, cleanTodo, log, sigReg, sigChan,
          sigSeen, req, nreq, zpc, zruns, zentries, zdir, ztodo, zip, zfailed, zkept,
          pgDir, pgOut>>

sysVars == <<fs, labelFile, labelChoices, mpc, proc, cleanTodo, log, sigReg, sigChan,
             sigSeen, req, nreq, zpc, zruns, zentries, zdir, ztodo, zip, zfailed, zkept>>

pgVars == <<pgDir, pgOut>>

Slots == 1..NSlots

\* The inodes request handlers hold open.
NoFd == 0 - 1

Held(rq) == ({rq[r].src : r \in Slots} \cup {rq[r].dst : r \in Slots}) \ {DirFd, NoFd}

IdleReq ==
    [pc |-> "idle", method |-> "", image |-> "", label |-> <<>>, resp |-> 0,
     was |-> "", src |-> NoFd, dst |-> NoFd]

\* ./images as a previous run may have left it.
Tree(d, f) ==
    [d |-> d, f |-> f,
     c |-> [i \in Inodes |-> IF i \in {f[q] : q \in DOMAIN f} THEN "full" ELSE "free"]]

NoImagesDir == Tree({}, <<>>)

TwoImages == Tree({Root}, (<<"cat.png">> :> 1) @@ (<<"dog.jpg">> :> 2))

OneStale == Tree({Root, <<"B">>}, (<<"cat.png">> :> 1) @@ (<<"B", "dog.jpg">> :> 2))

TwoStale ==
    Tree({Root, <<"A">>, <<"B">>}, (<<"cat.png">> :> 1) @@ (<<"A", "dog.jpg">> :> 2))

InitTrees == {NoImagesDir, TwoImages, OneStale, TwoStale}

\* labels.txt as the operator may have written it.
LabelsFile(readable, lines) == [readable |-> readable, lines |-> lines]

LabelsAB == LabelsFile(TRUE, <<"A", "", " B ">>)

LabelsADot == LabelsFile(TRUE, <<"A", ".">>)

LabelFiles == {LabelsFile(FALSE, <<>>), LabelsFile(TRUE, <<"  ">>), LabelsAB, LabelsADot}

\* The process starts: nothing is loaded, no goroutine but main runs.
SysStart ==
    /\ labelChoices = <<>>
    /\ mpc = "mkdir"
    /\ proc = "running"
    /\ cleanTodo = <<>>
    /\ log = {}
    /\ sigReg = FALSE
    /\ sigChan = 0
    /\ sigSeen = FALSE
    /\ req = [r \in Slots |-> IdleReq]
    /\ nreq = 0
    /\ zpc = "off"
    /\ zruns = 0
    /\ zentries = <<>>
    /\ zdir = Root
    /\ ztodo = <<>>
    /\ zip = <<>>
    /\ zfailed = {}
    /\ zkept = {}

\* What the whole-program specification starts from; the trees with stale
\* subfolders are those of the startup and termination specifications.
SysInit ==
    /\ \/ fs \in {NoImagesDir, TwoImages} /\ labelFile = LabelsAB
       \/ fs = TwoImages /\ labelFile \in LabelFiles
    /\ SysStart

\* ----------------------------------------------------------------- startup
\* log.Fatalf, os.Exit and a signal nobody handles end the process: no
\* goroutine takes another step.
Running == proc = "running"

\* main, lines 46-48: the images directory is created when it is missing.
MainMkdir ==
    /\ Running /\ mpc = "mkdir"
    /\ \E fail \in BOOLEAN :
        LET m == MkdirAll(fs, Root)
        IN  IF fail \/ ~m.ok
            THEN /\ proc' = "exited"
                 /\ log' = log \cup {"fatal: images directory"}
                 /\ UNCHANGED <<fs, mpc>>
            ELSE /\ fs' = m.t
                 /\ mpc' = "load"
                 /\ UNCHANGED <<proc, log>>
    /\ UNCHANGED <<labelFile, labelChoices, cleanTodo, sigReg, sigChan, sigSeen, req, nreq,
                   zpc, zruns, zentries, zdir, ztodo, zip, zfailed, zkept, pgVars>>

\* loadLabelChoices: the trimmed, non-blank lines in file order; an
\* unreadable file and a file without labels are errors.
RECURSIVE ScanLines(_)
ScanLines(lines) ==
    IF lines = <<>> THEN <<>>
    ELSE LET line == TrimSpace(Head(lines))
         IN  (IF line # "" THEN <<line>> ELSE <<>>) \o ScanLines(Tail(lines))

loadLabelChoices(file) ==
    IF ~file.readable THEN [err |-> TRUE, labels |-> <<>>]
    ELSE LET labels == ScanLines(file.lines)
         IN  [err |-> Len(labels) = 0, labels |-> labels]

\* main, lines 50-56: the labels are loaded once; a failure is fatal.
MainLoad ==
    /\ Running /\ mpc = "load"
    /\ LET l == loadLabelChoices(labelFile)
       IN  IF l.err
           THEN /\ proc' = "exited"
                /\ log' = log \cup {"fatal: label choices"}
                /\ UNCHANGED <<labelChoices, mpc>>
           ELSE /\ labelChoices' = l.labels
                /\ mpc' = "clean"
                /\ UNCHANGED <<proc, log>>
    /\ UNCHANGED <<fs, labelFile, cleanTodo, sigReg, sigChan, sigSeen, req, nreq,
                   zpc, zruns, zentries, zdir, ztodo, zip, zfailed, zkept, pgVars>>

\* An entry of os.ReadDir: the name and the type read with it.
DirEntries(t, p) ==
    LET names == ReadDir(t, p)
    IN  [i \in 1..Len(names) |->
            [name |-> names[i], isDir |-> IsDir(t, Append(p, names[i]))]]

\* cleanLabelSubfolders, lines 116-119, and main's warning, lines 59-61.
CleanReadDir ==
    /\ Running /\ mpc = "clean"
    /\ \E fail \in BOOLEAN :
        IF fail
        THEN /\ log' = log \cup {"warning: clean label subfolders"}
             /\ mpc' = "notify"
             /\ UNCHANGED cleanTodo
        ELSE /\ cleanTodo' = DirEntries(fs, Root)
             /\ mpc' = "cleaning"
             /\ UNCHANGED log
    /\ UNCHANGED <<fs, labelFile, labelChoices, proc, sigReg, sigChan, sigSeen, req, nreq,
                   zpc, zruns, zentries, zdir, ztodo, zip, zfailed, zkept, pgVars>>

\* cleanLabelSubfolders, lines 121-133: every subdirectory is removed; a
\* removal that fails is logged and the loop goes on.  A failed RemoveAll may
\* have removed what the directory held.
CleanEntry ==
    /\ Running /\ mpc = "cleaning"
    /\ IF cleanTodo = <<>>
       THEN /\ mpc' = "notify"
            /\ UNCHANGED <<fs, cleanTodo, log>>
       ELSE LET e == Head(cleanTodo)
                p == Append(Root, e.name)
            IN  /\ cleanTodo' = Tail(cleanTodo)
                /\ UNCHANGED mpc
                /\ IF ~e.isDir
                   THEN UNCHANGED <<fs, log>>
                   ELSE \E fail \in BOOLEAN, partial \in BOOLEAN :
                        IF fail
                        THEN /\ log' = log \cup {"failed to remove directory"}
                             /\ fs' = IF partial
                                      THEN Gc([RemoveAll(fs, p) EXCEPT !.d = @ \cup {p}], {})
                                      ELSE fs
                        ELSE /\ fs' = Gc(RemoveAll(fs, p), {})
                             /\ UNCHANGED log
    /\ UNCHANGED <<labelFile, labelChoices, proc, sigReg, sigChan, sigSeen, req, nreq,
                   zpc, zruns, zentries, zdir, ztodo, zip, zfailed, zkept, pgVars>>

\* main, lines 64-76: the signal channel is registered and the goroutine
\* that waits on it is started.
MainNotify ==
    /\ Running /\ mpc = "notify"
    /\ sigReg' = TRUE
    /\ zpc' = "wait"
    /\ mpc' = "listen"
    /\ UNCHANGED <<fs, labelFile, labelChoices, proc, cleanTodo, log, sigChan, sigSeen,
                   req, nreq, zruns, zentries, zdir, ztodo, zip, zfailed, zkept, pgVars>>

\* main, lines 79-85: http.ListenAndServe serves until it fails; failing to
\* bind the port is fatal.
MainListen ==
    /\ Running /\ mpc = "listen"
    /\ \E fail \in BOOLEAN :
        IF fail
        THEN /\ proc' = "exited"
             /\ log' = log \cup {"fatal: listen"}
             /\ UNCHANGED mpc
        ELSE /\ mpc' = "serving"
             /\ UNCHANGED <<proc, log>>
    /\ UNCHANGED <<fs, labelFile, labelChoices, cleanTodo, sigReg, sigChan, sigSeen,
                   req, nreq, zpc, zruns, zentries, zdir, ztodo, zip, zfailed, zkept, pgVars>>

\* SIGINT or SIGTERM reaches the process.  Before signal.Notify the default
\* action ends the process; after it the signal is sent to sigChan without
\* blocking, so it is dropped when the buffer is full.
Signal ==
    /\ Running
    /\ sigSeen' = TRUE
    /\ IF sigReg
       THEN /\ sigChan' = 1
            /\ UNCHANGED proc
       ELSE /\ proc' = "exited"
            /\ UNCHANGED sigChan
    /\ UNCHANGED <<fs, labelFile, labelChoices, mpc, cleanTodo, log, sigReg, req, nreq,
                   zpc, zruns, zentries, zdir, ztodo, zip, zfailed, zkept, pgVars>>

\* ------------------------------------------------------------- POST /label
\* What a client may send: the method and the form values image and label.
Form(method, image, label) == [method |-> method, image |-> image, label |-> label]

Requests ==
    { Form("GET", "cat.png", <<"1">>),
      Form("POST", "", <<"1">>),
      Form("POST", "cat.png", <<>>),
      Form("POST", "cat.png", <<"x">>),
      Form("POST", "cat.png", <<"0">>),
      Form("POST", "cat.png", <<"3">>) }
    \cup { Form("POST", image, label) :
             image \in {"cat.png", "ghost.png", "A"},
             label \in {<<"1">>, <<"2">>} }
    \cup { Form("POST", "dog.jpg", <<"2">>) }

\* A variant of LabelOk whose bounds are off by one at both ends.
LabelOkOffByOne(label) ==
    LET a == Atoi(label)
    IN  ~a.err /\ a.val >= 0 /\ a.val <= Len(labelChoices) + 1

\* labelHandler, line 293: the label is a number from 1 to len(labelChoices).
LabelOk(label) ==
    LET a == Atoi(label)
    IN  ~a.err /\ a.val >= 1 /\ a.val <= Len(labelChoices)

\* labelHandler, lines 279-296: the status the checks answer with, 0 when
\* the request passes them.
Validate(method, image, label) ==
    IF method # "POST" THEN 405
    ELSE IF image = "" \/ label = <<>> THEN 400
    ELSE IF ~LabelOk(label) THEN 400
    ELSE 0

\* labelHandler, lines 299-304.
LabelName(rq) == labelChoices[Atoi(rq.label).val]

SrcPath(rq) == Join(Root, rq.image)

DstDir(rq) == Join(Root, LabelName(rq))

DstPath(rq) == Join(DstDir(rq), rq.image)

\* The handler returns: the response is written and its files are closed.
\* What stays of the request is what it asked and what it was answered.
Finish(rq, code) == [rq EXCEPT !.pc = "done", !.resp = code, !.src = NoFd, !.dst = NoFd]

\* The files of the archiver's snapshot that are where they were.
Kept(S, old, new) == {p \in S : IsFile(new, p) /\ new.f[p] = old.f[p]}

reqFrame == <<nreq,
              labelFile, labelChoices, mpc, proc, cleanTodo, log, sigReg, sigChan,
              sigSeen, zpc, zruns, zentries, zdir, ztodo, zip, zfailed, pgVars>>

\* net/http accepts connections from ListenAndServe on, until the process ends.
Serving == Running /\ mpc = "serving"

\* What a path names.
Kind(t, p) == IF IsFile(t, p) THEN "file" ELSE IF IsDir(t, p) THEN "dir" ELSE "none"

\* A handler that has returned leaves its goroutine free for the next request.
IsFree(r) == req[r].pc \in {"idle", "done"}

\* net/http starts a handler goroutine for a request that arrives; which
\* goroutine it is does not matter, so it is the first free one.
LabelRecv(r) ==
    /\ Serving /\ IsFree(r) /\ \A q \in Slots : q < r => ~IsFree(q)
    /\ nreq < MaxReq
    /\ nreq' = nreq + 1
    /\ \E f \in Requests :
        req' = [req EXCEPT ![r] = [IdleReq EXCEPT !.pc = "recv", !.method = f.method,
                                                  !.image = f.image, !.label = f.label]]
    /\ UNCHANGED <<fs, zkept, labelFile, labelChoices, mpc, proc, cleanTodo, log, sigReg,
                   sigChan, sigSeen, zpc, zruns, zentries, zdir, ztodo, zip, zfailed,
                   pgVars>>

\* labelHandler, lines 279-304: the request is validated.
LabelCheck(r) ==
    /\ Running /\ req[r].pc = "recv"
    /\ LET code == Validate(req[r].method, req[r].image, req[r].label)
           rq == [req[r] EXCEPT !.was = Kind(fs, Join(Root, req[r].image))]
       IN  req' = [req EXCEPT ![r] = IF code # 0 THEN Finish(rq, code)
                                     ELSE [rq EXCEPT !.pc = "mkdir"]]
    /\ UNCHANGED <<fs, zkept, reqFrame>>

\* labelHandler, lines 307-311: the label subfolder is created.
LabelMkdir(r) ==
    /\ Running /\ req[r].pc = "mkdir"
    /\ \E fail \in BOOLEAN :
        LET m == MkdirAll(fs, DstDir(req[r]))
        IN  IF fail \/ ~m.ok
            THEN /\ req' = [req EXCEPT ![r] = Finish(@, 500)]
                 /\ UNCHANGED fs
            ELSE /\ fs' = m.t
                 /\ req' = [req EXCEPT ![r].pc = "rename"]
    /\ UNCHANGED <<zkept, reqFrame>>

\* moveFile, lines 354-357: the rename; when it succeeds the handler answers
\* 200 "OK" (lines 320-324).
MoveRename(r) ==
    /\ Running /\ req[r].pc = "rename"
    /\ \E fail \in BOOLEAN :
        LET m == Rename(fs, SrcPath(req[r]), DstPath(req[r]))
        IN  IF fail \/ ~m.ok
            THEN /\ req' = [req EXCEPT ![r].pc = "open"]
                 /\ UNCHANGED <<fs, zkept>>
            ELSE /\ req' = [req EXCEPT ![r] = Finish(@, 200)]
                 /\ fs' = Gc(m.t, Held(req'))
                 /\ zkept' = Kept(zkept, fs, fs')
    /\ UNCHANGED reqFrame

\* moveFile, lines 360-364: the source is opened; a failure is answered 500
\* (labelHandler, lines 314-318).
MoveOpen(r) ==
    /\ Running /\ req[r].pc = "open"
    /\ \E fail \in BOOLEAN :
        LET o == Open(fs, SrcPath(req[r]))
        IN  IF fail \/ ~o.ok
            THEN /\ req' = [req EXCEPT ![r] = Finish(@, 500)]
            ELSE /\ req' = [req EXCEPT ![r].pc = "create", ![r].src = o.fd]
    /\ UNCHANGED <<fs, zkept, reqFrame>>

\* moveFile, lines 366-370: the destination is created or truncated.
MoveCreate(r) ==
    /\ Running /\ req[r].pc = "create"
    /\ \E fail \in BOOLEAN :
        LET c == Create(fs, DstPath(req[r]), Held(req))
        IN  IF fail \/ ~c.ok
            THEN /\ req' = [req EXCEPT ![r] = Finish(@, 500)]
                 /\ fs' = Gc(fs, Held(req'))
            ELSE /\ req' = [req EXCEPT ![r].pc = "copy", ![r].dst = c.fd]
                 /\ fs' = c.t
    /\ zkept' = Kept(zkept, fs, fs')
    /\ UNCHANGED reqFrame

\* io.Copy(dst, src): what src holds is written to dst; reading a directory
\* fails, and a copy that fails part way leaves dst incomplete.
Copy(t, src, dst) ==
    IF src = DirFd THEN [ok |-> FALSE, t |-> t]
    ELSE [ok |-> TRUE, t |-> [t EXCEPT !.c[dst] = t.c[src]]]

\* moveFile, lines 372-375: the copy.
MoveCopy(r) ==
    /\ Running /\ req[r].pc = "copy"
    /\ \E fail \in BOOLEAN :
        LET c == Copy(fs, req[r].src, req[r].dst)
        IN  IF ~c.ok \/ fail
            THEN /\ req' = [req EXCEPT ![r] = Finish(@, 500)]
                 /\ fs' = Gc(IF c.ok THEN [fs EXCEPT !.c[req[r].dst] = "part"] ELSE fs,
                             Held(req'))
            ELSE /\ req' = [req EXCEPT ![r].pc = "remove"]
                 /\ fs' = c.t
    /\ UNCHANGED <<zkept, reqFrame>>

\* moveFile, line 378: the source is removed; its result is moveFile's.
MoveRemove(r) ==
    /\ Running /\ req[r].pc = "remove"
    /\ \E fail \in BOOLEAN :
        LET m == Remove(fs, SrcPath(req[r]))
        IN  IF fail \/ ~m.ok
            THEN /\ req' = [req EXCEPT ![r] = Finish(@, 500)]
                 /\ fs' = Gc(fs, Held(req'))
            ELSE /\ req' = [req EXCEPT ![r] = Finish(@, 200)]
                 /\ fs' = Gc(m.t, Held(req'))
    /\ zkept' = Kept(zkept, fs, fs')
    /\ UNCHANGED reqFrame

labelHandler(r) ==
    \/ LabelRecv(r)
    \/ LabelCheck(r)
    \/ LabelMkdir(r)
    \/ MoveRename(r)
    \/ MoveOpen(r)
    \/ MoveCreate(r)
    \/ MoveCopy(r)
    \/ MoveRemove(r)

\* --------------------------------------------------------- createResultZip
zipFrame == <<fs, labelFile, labelChoices, mpc, proc, cleanTodo, sigReg, sigSeen, req, nreq,
              pgVars>>

\* main, lines 68-70, and createResultZip, lines 138-145: the goroutine
\* takes the signal from the channel and calls createResultZip, which
\* creates result.zip anew.
ZipRecv ==
    /\ Running /\ zpc = "wait" /\ sigChan = 1
    /\ sigChan' = 0
    /\ zruns' = zruns + 1
    /\ \E fail \in BOOLEAN :
        IF fail
        THEN /\ log' = log \cup {"error creating result.zip"}
             /\ zpc' = "exit"
             /\ UNCHANGED zip
        ELSE /\ zip' = <<>>
             /\ zpc' = "readdir"
             /\ UNCHANGED log
    /\ UNCHANGED <<zentries, zdir, ztodo, zfailed, zkept, zipFrame>>

\* The files below the subfolders of ./images.
Labeled(t) == {p \in DOMAIN t.f : Len(p) >= 2}

\* createResultZip, lines 154-155: entries that are no directories are
\* passed over.
RECURSIVE SkipFiles(_)
SkipFiles(es) ==
    IF es = <<>> \/ Head(es).isDir THEN es ELSE SkipFiles(Tail(es))

\* createResultZip, lines 154-156 and 200-202: the loop goes to the next
\* subfolder and starts its walk; after the last one the function returns
\* nil (main, line 73).
ZipLoop(es) ==
    LET rest == SkipFiles(es)
    IN  IF rest = <<>>
        THEN /\ zpc' = "exit"
             /\ log' = log \cup {"successfully created result.zip"}
             /\ zentries' = <<>>
             /\ ztodo' = <<>>
             /\ UNCHANGED zdir
        ELSE /\ zentries' = Tail(rest)
             /\ zdir' = Append(Root, Head(rest).name)
             /\ ztodo' = <<Append(Root, Head(rest).name)>>
             /\ zpc' = "walk"
             /\ UNCHANGED log

\* A variant of WalkError that returns the error to main instead of
\* logging it and going on.
WalkErrorReturns ==
    /\ zpc' = "exit"
    /\ log' = log \cup {"error creating result.zip"}
    /\ zentries' = <<>>
    /\ ztodo' = <<>>
    /\ UNCHANGED zdir

\* createResultZip, lines 196-198: the error filepath.Walk returns is logged
\* and the loop goes on with the next entry.
WalkError == ZipLoop(zentries)

\* createResultZip, lines 148-151: the entries of ./images are read.
ZipReadDir ==
    /\ Running /\ zpc = "readdir"
    /\ \E fail \in BOOLEAN :
        IF fail \/ ~IsDir(fs, Root)
        THEN /\ log' = log \cup {"error creating result.zip"}
             /\ zpc' = "exit"
             /\ UNCHANGED <<zentries, zdir, ztodo, zkept>>
        ELSE /\ zkept' = Labeled(fs)
             /\ \E es \in {DirEntries(fs, Root)} : ZipLoop(es)
    /\ UNCHANGED <<sigChan, zruns, zip, zfailed, zipFrame>>

\* A variant of AddToZip that names the entry by the file's base name
\* instead of its path relative to ./images.
AddToZipBase(z, p, t, outcome) ==
    CASE outcome = "create fails" -> z
      [] outcome = "copy fails" -> (<<Base(p)>> :> "part") @@ z
      [] OTHER -> (<<Base(p)>> :> t.c[t.f[p]]) @@ z

\* The callback of lines 159-195 on a file: the zip entry is created, the
\* file is opened, its bytes are copied.  When creating the entry fails
\* nothing is written; when opening or copying fails the entry is there and
\* holds less than the file.
AddToZip(z, p, t, outcome) ==
    CASE outcome = "create fails" -> z
      [] outcome = "copy fails" -> (p :> "part") @@ z
      [] OTHER -> (p :> t.c[t.f[p]]) @@ z

AddOutcomes == {"ok", "create fails", "copy fails"}

\* filepath.Walk over one subfolder, lines 159-198, one path a step: a
\* directory is listed and its entries are queued in name order, a file is
\* added to the archive.  The first error ends the walk of the subfolder and
\* is logged (line 197); the loop over the subfolders goes on.
ZipWalk ==
    /\ Running /\ zpc = "walk"
    /\ LET p == Head(ztodo)
       IN  \E outcome \in AddOutcomes \cup {"stat fails"} :
            IF outcome = "stat fails" \/ ~Exists(fs, p) \/ (IsFile(fs, p) /\ outcome # "ok")
            THEN /\ zip' = IF IsFile(fs, p) /\ outcome # "stat fails"
                           THEN AddToZip(zip, p, fs, outcome) ELSE zip
                 /\ zfailed' = zfailed \cup {zdir}
                 /\ WalkError
            ELSE LET below == IF IsDir(fs, p)
                              THEN LET names == ReadDir(fs, p)
                                   IN  [i \in 1..Len(names) |-> Append(p, names[i])]
                              ELSE <<>>
                     todo == below \o Tail(ztodo)
                 IN  /\ outcome = "ok"
                     /\ zip' = IF IsFile(fs, p) THEN AddToZip(zip, p, fs, "ok") ELSE zip
                     /\ UNCHANGED zfailed
                     /\ IF todo = <<>>
                        THEN ZipLoop(zentries)
                        ELSE /\ ztodo' = todo
                             /\ UNCHANGED <<zentries, zdir, zpc, log>>
    /\ UNCHANGED <<sigChan, zruns, zkept, zipFrame>>

\* A variant of ZipExit that waits for the next signal instead of exiting.
ZipExitWaits ==
    /\ Running /\ zpc = "exit"
    /\ zpc' = "wait"
    /\ UNCHANGED <<fs, labelFile, labelChoices, mpc, proc, cleanTodo, log, sigReg, sigChan,
                   sigSeen, req, nreq, zruns, zentries, zdir, ztodo, zip, zfailed, zkept,
                   pgVars>>

\* main, line 75: os.Exit(0), whatever createResultZip returned.
ZipExit ==
    /\ Running /\ zpc = "exit"
    /\ proc' = "exited"
    /\ zpc' = "done"
    /\ UNCHANGED <<fs, labelFile, labelChoices, mpc, cleanTodo, log, sigReg, sigChan,
                   sigSeen, req, nreq, zruns, zentries, zdir, ztodo, zip, zfailed, zkept,
                   pgVars>>

createResultZip == ZipReadDir \/ ZipWalk

\* -------------------------------------------------------------------- GET /
\* The extensions getImages lets through (line 342); the comparison is
\* case-sensitive.
ImageExts == {".jpg", ".jpeg", ".png", ".gif", ".bmp", ".webp"}

\* A directory entry of the listing: names are numbers, in the order
\* os.ReadDir sorts them.
DirEntry(name, isDir, ext) == [name |-> name, isDir |-> isDir, ext |-> ext]

ExtOf(k) ==
    CASE k % 6 = 0 -> ".jpg" [] k % 6 = 1 -> ".jpeg" [] k % 6 = 2 -> ".png"
      [] k % 6 = 3 -> ".gif" [] k % 6 = 4 -> ".bmp" [] OTHER -> ".webp"

\* n image files; with others, also a directory whose name ends in .png, a
\* text file and a file with an upper-case extension.
Listing(n, others) ==
    (IF others THEN <<DirEntry(0, TRUE, ".png")>> ELSE <<>>)
    \o [k \in 1..n |-> DirEntry(k, FALSE, ExtOf(k))]
    \o (IF others THEN <<DirEntry(n + 1, FALSE, ".txt"), DirEntry(n + 2, FALSE, ".PNG")>>
        ELSE <<>>)

\* sort.Strings (line 348), by insertion.
RECURSIVE Insert(_, _)
Insert(sorted, x) ==
    IF sorted = <<>> THEN <<x>>
    ELSE IF x <= Head(sorted) THEN <<x>> \o sorted
    ELSE <<Head(sorted)>> \o Insert(Tail(sorted), x)

RECURSIVE SortStrings(_)
SortStrings(names) ==
    IF names = <<>> THEN <<>> ELSE Insert(SortStrings(Tail(names)), Head(names))

\* getImages, lines 333-349: directories and other extensions are dropped,
\* the names are sorted.
RECURSIVE FilterImages(_)
FilterImages(es) ==
    IF es = <<>> THEN <<>>
    ELSE (IF ~Head(es).isDir /\ Head(es).ext \in ImageExts
          THEN <<Head(es).name>> ELSE <<>>) \o FilterImages(Tail(es))

getImages(es) == SortStrings(FilterImages(es))

\* homeHandler, lines 207-211: the page asked for; 1 when the parameter does
\* not parse or is below 1.
RequestedPage(pageStr) ==
    LET a == Atoi(pageStr)
    IN  IF a.err \/ a.val < 1 THEN 1 ELSE a.val

\* homeHandler, lines 222-226.
TotalPages(totalImages) ==
    LET n == (totalImages + itemsPerPage - 1) \div itemsPerPage
    IN  IF n = 0 THEN 1 ELSE n

\* homeHandler, lines 227-229.
ClampPage(page, totalPages) == IF page > totalPages THEN totalPages ELSE page

\* homeHandler, lines 232-241: images[startIdx:endIdx].
PageImages(images, page) ==
    LET totalImages == Len(images)
        startIdx == (page - 1) * itemsPerPage
        end == startIdx + itemsPerPage
        endIdx == IF end > totalImages THEN totalImages ELSE end
    IN  IF startIdx < totalImages THEN SubSeq(images, startIdx + 1, endIdx) ELSE <<>>

\* homeHandler, lines 244-258: the data the template is rendered from.
PageData(pageStr, images) ==
    LET totalPages == TotalPages(Len(images))
        page == ClampPage(RequestedPage(pageStr), totalPages)
    IN  [status |-> 200,
         query |-> pageStr,
         Images |-> PageImages(images, page),
         CurrentPage |-> page,
         TotalPages |-> totalPages,
         Labels |-> [i \in 1..Len(labelChoices) |-> [Index |-> i, Text |-> labelChoices[i]]]]

\* The page parameter a client may send; the longest is 2^63.
PageStrs ==
    { <<>>, <<"x">>, <<"1", "x">>, <<"0">>, <<"-", "1">>, <<"1">>, <<"2">>, <<"+", "2">>,
      <<"3">>, <<"4">>, <<"9", "9">>, MinIntDigits }

\* homeHandler: GET /?page=pageStr; a listing that cannot be read is
\* answered 500 (lines 214-219).
homeHandler ==
    /\ \E pageStr \in PageStrs, fail \in BOOLEAN :
        pgOut' = IF fail THEN [status |-> 500, query |-> pageStr]
                 ELSE PageData(pageStr, getImages(pgDir))
    /\ UNCHANGED <<pgDir, sysVars>>

\* ------------------------------------------------------------ specification
PgIdle == pgDir = <<>> /\ pgOut = [status |-> 0]

Init == SysInit /\ PgIdle

Next ==
    \/ MainMkdir
    \/ MainLoad
    \/ CleanReadDir
    \/ CleanEntry
    \/ MainNotify
    \/ MainListen
    \/ Signal
    \/ \E r \in Slots : labelHandler(r)
    \/ ZipRecv
    \/ createResultZip
    \/ ZipExit

Spec == Init /\ [][Next]_vars

\* Startup alone, from every tree and every labels.txt of the model.
StartInit == fs \in InitTrees /\ labelFile \in LabelFiles /\ SysStart /\ PgIdle

StartNext ==
    \/ MainMkdir
    \/ MainLoad
    \/ CleanReadDir
    \/ CleanEntry
    \/ MainNotify
    \/ MainListen
    \/ Signal

\* The Go scheduler runs a goroutine that can take a step: the signal
\* goroutine, once a signal is in its channel, goes on to os.Exit.
Fairness == WF_vars(ZipRecv) /\ WF_vars(createResultZip) /\ WF_vars(ZipExit)

\* The run the termination property is checked on: a tree with a stale
\* subfolder, and one request served by one handler goroutine while main and
\* the signal goroutine run.
FairInit == fs = OneStale /\ labelFile = LabelsAB /\ SysStart /\ PgIdle

OneRequest == labelHandler(1) /\ nreq' <= 1

FairNext ==
    \/ MainMkdir
    \/ MainLoad
    \/ CleanReadDir
    \/ CleanEntry
    \/ MainNotify
    \/ MainListen
    \/ Signal
    \/ OneRequest
    \/ ZipRecv
    \/ createResultZip
    \/ ZipExit

FairSpec == FairInit /\ [][FairNext]_vars /\ Fairness

StartSpec == StartInit /\ [][StartNext]_vars

\* Pagination alone: startup is over, the server is serving, the listing of
\* ./images is any of the model's, and requests for GET / arrive.
PageInit ==
    /\ fs = TwoImages /\ labelFile = LabelsAB
    /\ labelChoices = loadLabelChoices(LabelsAB).labels
    /\ mpc = "serving" /\ proc = "running" /\ sigReg = TRUE /\ zpc = "wait"
    /\ cleanTodo = <<>> /\ log = {} /\ sigChan = 0 /\ sigSeen = FALSE
    /\ req = [r \in Slots |-> IdleReq] /\ nreq = 0
    /\ zruns = 0 /\ zentries = <<>> /\ zdir = Root /\ ztodo = <<>>
    /\ zip = <<>> /\ zfailed = {} /\ zkept = {}
    /\ \E n \in 0..MaxImages, others \in BOOLEAN : pgDir = Listing(n, others)
    /\ pgOut = [status |-> 0]

PageNext == homeHandler

PageSpec == PageInit /\ [][PageNext]_vars

\* ------------------------------------------------------------------ claims
\* The handler log.Printf lines (a request's error, a moved file) are not
\* part of the state: the response status carries what they say.

\* The messages a failed purge leaves in the log.
PurgeFailures == {"warning: clean label subfolders", "failed to remove directory"}

\* The files directly in ./images, with the inode and the bytes of each.
RootFiles(t) == {<<p, t.f[p], t.c[t.f[p]]>> : p \in {q \in DOMAIN t.f : Len(q) = 1}}

\* The subdirectories of ./images.
Subdirs(t) == t.d \ {Root}

\* C10: once the purge is over and no failure of it was logged, ./images
\* holds no subdirectory and no labeled file; a step of the purge leaves the
\* files directly in ./images as they were, never ends the process and leads
\* on towards signal registration and ListenAndServe, failure or not.
C10_PurgeClean ==
    /\ [](mpc \in {"notify", "listen", "serving"} /\ log \cap PurgeFailures = {}
            => Subdirs(fs) = {} /\ Labeled(fs) = {})
    /\ [][(CleanReadDir \/ CleanEntry)
            => /\ RootFiles(fs') = RootFiles(fs)
               /\ proc' = proc
               /\ mpc' \in {"cleaning", "notify"}]_vars

\* The server is serving, the stale subfolder B and the file it held are
\* gone, cat.png is where it was.
C10_Witness ==
    /\ mpc = "serving" /\ proc = "running" /\ log = {}
    /\ fs.d = {Root} /\ DOMAIN fs.f = {<<"cat.png">>}
    /\ fs.c[1] = "full" /\ fs.c[2] = "free"

\* The label of a request is a number outside 1..len(labelChoices).
OutOfRange(rq) ==
    LET a == Atoi(rq.label)
    IN  rq.method = "POST" /\ rq.image # "" /\ rq.label # <<>>
        /\ ~a.err /\ (a.val = 0 \/ a.val > Len(labelChoices))

\* C3: a POST /label whose label index is 0 or above the number of loaded
\* labels is answered 400 by the one step its handler takes, and that step
\* leaves the tree below ./images as it was: no directory made, no file moved.
C3_OutOfRangeRejected ==
    /\ [](\A r \in Slots :
            req[r].pc \notin {"idle", "recv"} /\ OutOfRange(req[r])
                => req[r].pc = "done" /\ req[r].resp = 400)
    /\ [][\A r \in Slots :
            req[r].pc = "recv" /\ OutOfRange(req[r]) /\ req'[r] # req[r]
                => req'[r].pc = "done" /\ req'[r].resp = 400 /\ fs' = fs]_vars

\* Two labels are loaded and a request with label 3 has been answered 400.
C3_Witness ==
    /\ Len(labelChoices) = 2
    /\ \E r \in Slots :
        req[r].pc = "done" /\ req[r].label = <<"3">> /\ req[r].resp = 400

\* C6: createResultZip is called at most once in a run and only after a
\* termination signal was delivered, it runs only once startup is over, and
\* once a signal was delivered the process ends, whether result.zip was
\* written or not.
C6_Lifecycle ==
    /\ [](zruns <= 1)
    /\ [](zruns >= 1 => sigSeen)
    /\ [](zpc \notin {"off", "wait"} => mpc \in {"listen", "serving"})
    /\ (sigSeen ~> proc = "exited")

\* The process has exited after a run of createResultZip that failed.
C6_Witness ==
    /\ proc = "exited" /\ zpc = "done" /\ zruns = 1 /\ sigSeen
    /\ "error creating result.zip" \in log

\* The page parameter read as a number: an optional sign and digits.
IsNumber(q) ==
    LET ds == IF q # <<>> /\ Head(q) \in {"+", "-"} THEN Tail(q) ELSE q
    IN  ds # <<>> /\ \A i \in 1..Len(ds) : ds[i] \in Digits

Magnitude(q) == StripZeros(IF Head(q) \in {"+", "-"} THEN Tail(q) ELSE q)

\* The number q is below 1.
BelowOne(q) == Head(q) = "-" \/ Magnitude(q) = <<"0">>

\* The number q is above n, for n of at most three digits.
Above(q, n) ==
    ~BelowOne(q) /\ (Len(Magnitude(q)) > 3 \/ DecVal(Magnitude(q)) > n)

\* The image files of a listing.
ImageCount(es) ==
    Cardinality({i \in 1..Len(es) : ~es[i].isDir /\ es[i].ext \in ImageExts})

\* C5: a rendered page has TotalPages = max(1, ceil(count / itemsPerPage))
\* and CurrentPage in 1..TotalPages; a page parameter that is no number or
\* is below 1 gives page 1, one above TotalPages gives the last page.
C5_PageResolved ==
    pgOut.status = 200 =>
        LET count == ImageCount(pgDir)
            pages == IF count = 0 THEN 1
                     ELSE CHOOSE n \in 1..count :
                            n * itemsPerPage >= count /\ (n - 1) * itemsPerPage < count
            q == pgOut.query
        IN  /\ pgOut.TotalPages = pages
            /\ pgOut.CurrentPage \in 1..pages
            /\ (~IsNumber(q) \/ BelowOne(q)) => pgOut.CurrentPage = 1
            /\ (IsNumber(q) /\ Above(q, pages)) => pgOut.CurrentPage = pages

\* A valid assign-label request: its label is in range and its image named
\* a file directly in ./images when the handler looked.
ValidMove(rq) == rq.method = "POST" /\ LabelOk(rq.label) /\ rq.was = "file"

\* Handler r returns in this step.
Returns(r) == req[r].pc \notin {"idle", "recv", "done"} /\ req'[r].pc = "done"

Quiet == \A r \in Slots : IsFree(r)

\* The names of the images in the model's trees.
ImageNames == {"cat.png", "dog.jpg"}

\* C2: when no request is in progress every image is in one place, whole:
\* none is in two folders and none is left cut short.
C2_OneCopy ==
    Quiet =>
        \A p \in DOMAIN fs.f :
            Base(p) \in ImageNames
                => /\ fs.c[fs.f[p]] = "full"
                   /\ \A q \in DOMAIN fs.f : Base(q) = Base(p) => q = p

\* C7: once the signal goroutine has taken the signal and createResultZip
\* has begun, the server accepts no request.
C7_NoNewRequests ==
    [][zpc \notin {"off", "wait"} => nreq' = nreq]_vars

\* C8: a request in range whose image named nothing in ./images when the
\* handler looked creates and moves no file in any of its steps, is answered
\* 500 when it returns, and leaves the process running.
C8_MissingFileFails ==
    [][\A r \in Slots :
        (/\ req[r].method = "POST" /\ LabelOk(req[r].label) /\ req[r].was = "none"
         /\ req'[r] # req[r])
            => /\ fs'.f = fs.f
               /\ proc' = "running"
               /\ req'[r].pc = "done" => req'[r].resp = 500]_vars

\* createResultZip has returned.
ZipOver == zpc \in {"exit", "done"} /\ zruns = 1

\* The label subfolder a path lies below.
TopDir(p) == <<p[1]>>

C9_WalkErrorSkipped ==
    /\ [](ZipOver /\ zfailed # {}
            => /\ "successfully created result.zip" \in log
               /\ "error creating result.zip" \notin log
               /\ \A p \in zkept : TopDir(p) \notin zfailed => p \in DOMAIN zip)
    /\ [][zfailed' # zfailed
            => LET rest == SkipFiles(zentries)
               IN  /\ zfailed' = zfailed \cup {zdir}
                   /\ \A p \in DOMAIN zip : p \in DOMAIN zip' /\ zip'[p] = zip[p]
                   /\ proc' = "running"
                   /\ IF rest = <<>>
                      THEN zpc' = "exit" /\ "successfully created result.zip" \in log'
                      ELSE zpc' = "walk" /\ zdir' = <<Head(rest).name>>]_vars

\* The walk of A ended with an error, B/dog.jpg is in the archive all the
\* same, and the run ended with the success message.
C9_Witness ==
    /\ zpc = "done" /\ zfailed = {<<"A">>}
    /\ <<"B", "dog.jpg">> \in DOMAIN zip /\ zip[<<"B", "dog.jpg">>] = "full"
    /\ "successfully created result.zip" \in log

====
